---- MODULE Spec2Model ----
(***************************************************************************)
(* A model of semantica.py: the class Semantica over a gensim KeyedVectors *)
(* vocabulary (self.c).                                                    *)
(*                                                                         *)
(* Values.  A concept key is a Python str, modelled as the sequence of its *)
(* character codes, so that str.lower() is computed and not assumed.  A    *)
(* concept vector is a 2-dimensional ndarray of fixed-point numbers: the   *)
(* integer x stands for the float x / Scale.  A concept is a tagged value  *)
(* [type, key, vec] with type the Python type isinstance() sees.           *)
(***************************************************************************)
EXTENDS Integers, Sequences, FiniteSets, TLC

VARIABLES
    c,              \* self.c: the vocabulary, a sequence of [key, vec] in index order
    eq_elementwise, \* the numpy build: str == ndarray is an array (TRUE) or scalar False
    call,           \* the call of the public method in progress or just returned
    model,          \* match: the *model argument
    skeleton,       \* match: the local skeleton
    target_domain,  \* match: the local target_domain
    i,              \* match: the loop index (0-based, as in the code)
    locals,         \* match: the candidate's new_root_concept, new_leaf_concepts, match_score
    printed,        \* match: the lines print() has written, in order
    status          \* match: "idle"; "for" and "if": at line 151 and at line 173;
                    \* "done": returned; "raised": left by an exception

vars == <<c, eq_elementwise, call, model, skeleton, target_domain, i, locals, printed, status>>

(***************************************************************************)
(* Bounds of the model.                                                    *)
(***************************************************************************)
MaxVocab == 3
MaxCount == 3
MaxSteps == 2
MaxConcepts == 2

\* The fixed-point resolution standing for the float32 working precision.
Scale == 1000

(***************************************************************************)
(* Python str and list helpers.                                            *)
(***************************************************************************)
\* A Python list built by a comprehension: the sequence with its elements computed.
List(f) == f \o <<>>

LowerChar(ch) == IF ch >= 65 /\ ch <= 90 THEN ch + 32 ELSE ch

\* str.lower()
lower(key) == List([n \in 1..Len(key) |-> LowerChar(key[n])])

RECURSIVE UniqueFrom(_, _, _)
UniqueFrom(sequence, n, seen) ==
    IF n > Len(sequence) THEN <<>>
    ELSE IF sequence[n] \in seen THEN UniqueFrom(sequence, n + 1, seen)
    ELSE <<sequence[n]>> \o UniqueFrom(sequence, n + 1, seen \cup {sequence[n]})

\* Semantica.unique: the first occurrences, in order.
unique(sequence) == UniqueFrom(sequence, 1, {})

\* The loop of lower_unique: the caller's list after it, lowercased in place.
LowerInPlace(concept_keys) ==
    List([n \in 1..Len(concept_keys) |-> lower(concept_keys[n])])

\* Semantica.lower_unique: its return value.
lower_unique(concept_keys) == unique(LowerInPlace(concept_keys))

\* [e for e in seq if str(e) != str(key)]
Without(seq, key) == SelectSeq(seq, LAMBDA e : e # key)

(***************************************************************************)
(* Fixed-point arithmetic on vectors.                                      *)
(***************************************************************************)
Abs(x) == IF x < 0 THEN -x ELSE x

\* a / b rounded to the nearest, symmetric in the sign of a (b > 0).
DivRound(a, b) == IF a >= 0 THEN (2 * a + b) \div (2 * b) ELSE -((2 * (-a) + b) \div (2 * b))

\* floor(sqrt(n)) by Newton's iteration from a guess x >= sqrt(n), n > 0.
RECURSIVE ISqrtFrom(_, _)
ISqrtFrom(n, x) ==
    LET y == (x + n \div x) \div 2
    IN  IF y >= x THEN x ELSE ISqrtFrom(n, y)

Zero == <<0, 0>>
Neg(v) == <<-v[1], -v[2]>>

\* The L2 norm of v (blas_nrm2), rounded down.
Norm(v) == IF v = Zero THEN 0 ELSE ISqrtFrom(v[1] * v[1] + v[2] * v[2], Abs(v[1]) + Abs(v[2]))

\* numpy.dot of two vectors, in units of Scale^2 (no rounding).
DotRaw(a, b) == a[1] * b[1] + a[2] * b[2]

\* matutils.unitvec: the vector scaled to length 1; a zero vector is returned as is.
unitvec(v) ==
    LET veclen == Norm(v)
    IN  IF veclen > 0 THEN <<DivRound(v[1] * Scale, veclen), DivRound(v[2] * Scale, veclen)>>
        ELSE v

RECURSIVE SumVec(_, _)
SumVec(vectors, n) ==
    IF n = 0 THEN Zero
    ELSE LET s == SumVec(vectors, n - 1) IN <<s[1] + vectors[n][1], s[2] + vectors[n][2]>>

\* array(vectors).mean(axis=0).astype(float32) of a non-empty list
MeanVec(vectors) ==
    LET s == SumVec(vectors, Len(vectors))
    IN  <<DivRound(s[1], Len(vectors)), DivRound(s[2], Len(vectors))>>

(***************************************************************************)
(* Concepts and results.                                                   *)
(***************************************************************************)
Str(key) == [type |-> "str", key |-> key, vec |-> Zero]
NdArray(vec) == [type |-> "ndarray", key |-> <<>>, vec |-> vec]
\* The numpy scalar nan: what array([]).mean(axis=0).astype(float32) is.
NanScalar == [type |-> "float32", key |-> <<>>, vec |-> Zero]

\* What a method hands back: an exception (raised # "") or a value.
Raise(exc) == [raised |-> exc, type |-> "none", keys |-> <<>>, vec |-> Zero]
RetVec(vec) == [raised |-> "", type |-> "ndarray", keys |-> <<>>, vec |-> vec]
RetKeys(keys) == [raised |-> "", type |-> "list", keys |-> keys, vec |-> Zero]
RetNan == [raised |-> "", type |-> "float32", keys |-> <<>>, vec |-> Zero]

(***************************************************************************)
(* The gensim KeyedVectors self.c.  Every method takes self, which stands  *)
(* for self.c: the vocabulary, a sequence of [key, vec] in index order.    *)
(***************************************************************************)
KeysOf(self) == {self[n].key : n \in 1..Len(self)}
HasKey(self, key) == key \in KeysOf(self)

\* self.c.get_vector(key) for a key of the vocabulary
get_vector(self, key) == self[CHOOSE n \in 1..Len(self) : self[n].key = key].vec

\* self.c.similarity(w1, w2): the cosine of the two keys' vectors, in units of Scale^2
similarity(self, w1, w2) ==
    DotRaw(unitvec(get_vector(self, w1)), unitvec(get_vector(self, w2)))

\* The indices of rem with the n largest distances, largest first; equal distances
\* in index order (numpy's argsort of at most 16 elements is an insertion sort).
RECURSIVE ArgsortDesc(_, _, _)
ArgsortDesc(dists, rem, n) ==
    IF n <= 0 \/ rem = {} THEN <<>>
    ELSE LET best == CHOOSE k \in rem :
                        \A j \in rem : dists[k] > dists[j] \/ (dists[k] = dists[j] /\ k <= j)
         IN  <<best>> \o ArgsortDesc(dists, rem \ {best}, n - 1)

\* self.c.most_similar([vec], topn=topn) with the scores dropped: the keys of the
\* topn vectors nearest to vec by cosine, nearest first.  A vector given as the
\* query excludes no key from the answer.
most_similar(self, vec, topn) ==
    LET q == unitvec(vec)
        dists == List([k \in 1..Len(self) |-> DotRaw(unitvec(self[k].vec), q)])
        best == ArgsortDesc(dists, 1..Len(self), topn)
    IN  List([n \in 1..Len(best) |-> self[best[n]].key])

(***************************************************************************)
(* Semantica.to_vector, field, mix, shift                                  *)
(***************************************************************************)
to_vector(self, concept, norm_result) ==
    IF concept.type = "ndarray"
    THEN RetVec(IF norm_result THEN unitvec(concept.vec) ELSE concept.vec)
    ELSE IF concept.type = "str"
    THEN IF HasKey(self, concept.key)
         THEN RetVec(IF norm_result THEN unitvec(get_vector(self, concept.key))
                     ELSE get_vector(self, concept.key))
         ELSE Raise("KeyError")
    ELSE Raise("ValueError")

\* field without its lines 57-59: the query key is left among the results.
FieldKeepQuery(concept, field_keys) == field_keys

\* field, lines 57-59: the query key itself is removed, compared as it was given.
FieldRemoveQuery(concept, field_keys) ==
    IF concept.type = "str" THEN Without(field_keys, concept.key) ELSE field_keys

field(self, concept, norm_concept, lower_flag, max_concept_count) ==
    LET v == to_vector(self, concept, norm_concept)
    IN  IF v.raised # "" THEN v
        ELSE LET found == most_similar(self, v.vec, max_concept_count)
                 lowered == IF lower_flag THEN lower_unique(found) ELSE found
             IN  RetKeys(FieldRemoveQuery(concept, lowered))

\* mix, lines 67-70: the concept vectors, each what to_vector hands back.
ConceptVectors(self, concepts, norm_concepts) ==
    List([n \in 1..Len(concepts) |-> to_vector(self, concepts[n], norm_concepts)])

\* The first exception among them, "" when there is none.
FirstRaise(concept_vectors) ==
    IF \A n \in 1..Len(concept_vectors) : concept_vectors[n].raised = "" THEN ""
    ELSE concept_vectors[CHOOSE n \in 1..Len(concept_vectors) :
                            /\ concept_vectors[n].raised # ""
                            /\ \A m \in 1..(n - 1) : concept_vectors[m].raised = ""].raised

\* mix, line 73: the mean of the concept vectors; of no vectors it is the scalar nan.
MixMean(concept_vectors) ==
    IF Len(concept_vectors) = 0 THEN NanScalar
    ELSE NdArray(MeanVec(List([n \in 1..Len(concept_vectors) |-> concept_vectors[n].vec])))

\* mix without its lines 86-88: the concepts given as keys stay among the results.
MixKeepQueries(concepts, results, n) == results

\* mix, lines 86-88: every str among the concepts is removed from the results.
RECURSIVE MixRemoveQueries(_, _, _)
MixRemoveQueries(concepts, results, n) ==
    IF n > Len(concepts) THEN results
    ELSE MixRemoveQueries(concepts,
             IF concepts[n].type = "str" THEN Without(results, concepts[n].key) ELSE results,
             n + 1)

mix(self, concepts, norm_concepts, norm_result, lower_flag, return_vector) ==
    LET concept_vectors == ConceptVectors(self, concepts, norm_concepts)
        exc == FirstRaise(concept_vectors)
        mixed == MixMean(concept_vectors)
    IN  IF exc # "" THEN Raise(exc)
        ELSE IF return_vector
        THEN (IF mixed.type = "ndarray" THEN RetVec(mixed.vec) ELSE RetNan)
        ELSE LET results == field(self, mixed, norm_result, lower_flag, 10)
             IN  IF results.raised # "" THEN results
                 ELSE LET lowered == IF lower_flag THEN lower_unique(results.keys)
                                     ELSE results.keys
                      IN  RetKeys(MixRemoveQueries(concepts, lowered, 1))

\* The mean of lines 100-101 with the source not negated.
ShiftMeanOfBoth(source_vector, target_vector) == MeanVec(<<source_vector, target_vector>>)

\* shift, lines 100-101: the mean of -source and target.
ShiftMean(source_vector, target_vector) == MeanVec(<<Neg(source_vector), target_vector>>)

shift(self, source, target, norm_concepts, norm_result) ==
    LET source_vector == to_vector(self, source, norm_concepts)
        target_vector == to_vector(self, target, norm_concepts)
    IN  IF source_vector.raised # "" THEN source_vector
        ELSE IF target_vector.raised # "" THEN target_vector
        ELSE LET s == ShiftMean(source_vector.vec, target_vector.vec)
             IN  RetVec(IF norm_result THEN unitvec(s) ELSE s)

(***************************************************************************)
(* Semantica.span (start and end are keys)                                 *)
(***************************************************************************)
\* shift * (1 / (steps + 1)) * step
SpanScaled(shift_vec, steps, step) ==
    <<DivRound(shift_vec[1] * step, steps + 1), DivRound(shift_vec[2] * step, steps + 1)>>

\* span, lines 117-120: the keys of the step fields, appended step after step.
RECURSIVE SpanCollect(_, _, _, _, _, _, _)
SpanCollect(self, start, shift_vec, steps, step, norm_result, norm_mix_concepts) ==
    IF step = 0 THEN RetKeys(<<>>)
    ELSE LET before == SpanCollect(self, start, shift_vec, steps, step - 1,
                                   norm_result, norm_mix_concepts)
             step_key_field == mix(self,
                                   <<Str(start), NdArray(SpanScaled(shift_vec, steps, step))>>,
                                   norm_mix_concepts, norm_result, FALSE, FALSE)
         IN  IF before.raised # "" THEN before
             ELSE IF step_key_field.raised # "" THEN step_key_field
             ELSE RetKeys(before.keys \o step_key_field.keys)

\* span, line 123: the query keys are removed, compared as they were given.
SpanRemoveQueries(results, start, end) ==
    SelectSeq(results, LAMBDA e : e # start /\ e # end)

\* The sort key of line 126.
SpanKey(self, x, start, end) == similarity(self, x, end) - similarity(self, x, start)

\* sorted(results, key=...): ascending and stable.  The element at index a goes
\* behind the elements with a smaller key and the earlier ones with an equal key.
SpanSorted(self, results, start, end) ==
    LET keyOf == List([n \in 1..Len(results) |-> SpanKey(self, results[n], start, end)])
        rank == List([a \in 1..Len(results) |->
                    Cardinality({b \in 1..Len(results) :
                        keyOf[b] < keyOf[a] \/ (keyOf[b] = keyOf[a] /\ b < a)})])
    IN  List([n \in 1..Len(results) |->
                 results[CHOOSE a \in 1..Len(results) : rank[a] = n - 1]])

\* span, line 133
SpanAddEnds(start, results, end) == <<lower(start)>> \o results \o <<lower(end)>>

span(self, start, end, steps, norm_concepts, norm_shift_result, norm_result, norm_mix_concepts) ==
    LET shifted == shift(self, Str(start), Str(end), norm_concepts, norm_shift_result)
    IN  IF shifted.raised # "" THEN shifted
        ELSE LET collected == SpanCollect(self, start, shifted.vec, steps, steps,
                                          norm_result, norm_mix_concepts)
             IN  IF collected.raised # "" THEN collected
                 ELSE LET kept == SpanRemoveQueries(collected.keys, start, end)
                          sorted == SpanSorted(self, kept, start, end)
                      IN  RetKeys(SpanAddEnds(start, lower_unique(sorted), end))

(***************************************************************************)
(* The vocabularies and the arguments the callers draw from.               *)
(***************************************************************************)
\* "Pa", "pa", "ro", "be", "lo", "RO", "me"
kPa == <<80, 97>>
kpa == <<112, 97>>
kro == <<114, 111>>
kbe == <<98, 101>>
klo == <<108, 111>>
kRO == <<82, 79>>
kme == <<109, 101>>
\* A key of no vocabulary: "zz"
kzz == <<122, 122>>

Word(key, x, y) == [key |-> key, vec |-> <<x * Scale, y * Scale>>]

\* The word list the vocabularies of the callers are cut from (word2vec files hold
\* case variants of a word as keys of their own).
Words ==
    << Word(kPa, 3, 4), Word(kpa, 8, 6), Word(kro, 0, 5), Word(kbe, -3, 4),
       Word(klo, 5, 12), Word(kRO, -4, -3), Word(kme, 12, -5), Word(kpa, 4, -3),
       Word(kro, 5, 0) >>

\* No key twice in a vocabulary.
DistinctKeys(vocab) ==
    \A a, b \in 1..Len(vocab) : vocab[a].key = vocab[b].key => a = b

Vocabularies ==
    {v \in {SubSeq(Words, a, b) : a, b \in 1..Len(Words)} :
        Len(v) >= 1 /\ Len(v) <= MaxVocab /\ DistinctKeys(v)}

QueryVectors == {<<Scale, 0>>, <<-2 * Scale, 2 * Scale>>}

\* The concepts a caller passes: the keys of the vocabulary, a key it lacks, vectors.
Concepts == {Str(k) : k \in KeysOf(c) \cup {kzz}} \cup {NdArray(v) : v \in QueryVectors}

RECURSIVE SeqsUpTo(_, _)
SeqsUpTo(S, n) ==
    IF n = 0 THEN {<<>>}
    ELSE LET shorter == SeqsUpTo(S, n - 1)
         IN  shorter \cup {Append(s, x) : s \in {t \in shorter : Len(t) = n - 1}, x \in S}

NoCall ==
    [op |-> "none", concepts |-> <<>>, keys |-> <<>>, keys_after |-> <<>>,
     norm_concepts |-> FALSE, norm_result |-> FALSE, norm_shift_result |-> FALSE,
     norm_mix_concepts |-> FALSE, lower |-> FALSE, return_vector |-> FALSE,
     count |-> 0, ret |-> Raise("")]

NoLocals ==
    [raised |-> "", new_root_concept |-> <<>>, new_leaf_concepts |-> <<>>,
     sum |-> 0, count |-> 0]

MatchIdle ==
    /\ model = <<>>
    /\ locals = NoLocals
    /\ skeleton = <<>>
    /\ target_domain = <<>>
    /\ i = 0
    /\ printed = <<>>
    /\ status = "idle"

Init ==
    /\ c \in Vocabularies
    /\ eq_elementwise \in BOOLEAN
    /\ call = NoCall
    /\ MatchIdle

(***************************************************************************)
(* The calls of the pure methods.  A call is made when none is recorded;   *)
(* it records its arguments, the caller's list after it and what it        *)
(* returned or raised.                                                     *)
(***************************************************************************)
UnchangedMatch == UNCHANGED <<model, skeleton, target_domain, i, locals, printed, status>>

CallUnique ==
    /\ call.op = "none"
    /\ \E sequence \in SeqsUpTo(KeysOf(c), MaxConcepts) :
          call' = [NoCall EXCEPT !.op = "unique", !.keys = sequence,
                                 !.keys_after = sequence,
                                 !.ret = RetKeys(unique(sequence))]
    /\ UNCHANGED <<c, eq_elementwise>>
    /\ UnchangedMatch

CallLowerUnique ==
    /\ call.op = "none"
    /\ \E concept_keys \in SeqsUpTo(KeysOf(c), MaxConcepts) :
          call' = [NoCall EXCEPT !.op = "lower_unique", !.keys = concept_keys,
                                 !.keys_after = LowerInPlace(concept_keys),
                                 !.ret = RetKeys(lower_unique(concept_keys))]
    /\ UNCHANGED <<c, eq_elementwise>>
    /\ UnchangedMatch

CallToVector ==
    /\ call.op = "none"
    /\ \E concept \in Concepts \cup {NanScalar}, norm_result \in BOOLEAN :
          call' = [NoCall EXCEPT !.op = "to_vector", !.concepts = <<concept>>,
                                 !.norm_result = norm_result,
                                 !.ret = to_vector(c, concept, norm_result)]
    /\ UNCHANGED <<c, eq_elementwise>>
    /\ UnchangedMatch

CallField ==
    /\ call.op = "none"
    /\ \E concept \in Concepts, norm_concept \in BOOLEAN, lower_flag \in BOOLEAN,
          max_concept_count \in (0..MaxCount) \cup {10} :
          call' = [NoCall EXCEPT !.op = "field", !.concepts = <<concept>>,
                                 !.norm_concepts = norm_concept, !.lower = lower_flag,
                                 !.count = max_concept_count,
                                 !.ret = field(c, concept, norm_concept, lower_flag,
                                               max_concept_count)]
    /\ UNCHANGED <<c, eq_elementwise>>
    /\ UnchangedMatch

CallMix ==
    /\ call.op = "none"
    /\ \E concepts \in SeqsUpTo(Concepts, MaxConcepts), norm_concepts \in BOOLEAN,
          norm_result \in BOOLEAN, lower_flag \in BOOLEAN, return_vector \in BOOLEAN :
          call' = [NoCall EXCEPT !.op = "mix", !.concepts = concepts,
                                 !.norm_concepts = norm_concepts,
                                 !.norm_result = norm_result, !.lower = lower_flag,
                                 !.return_vector = return_vector,
                                 !.ret = mix(c, concepts, norm_concepts, norm_result,
                                             lower_flag, return_vector)]
    /\ UNCHANGED <<c, eq_elementwise>>
    /\ UnchangedMatch

CallShift ==
    /\ call.op = "none"
    /\ \E source \in Concepts, target \in Concepts, norm_concepts \in BOOLEAN,
          norm_result \in BOOLEAN :
          call' = [NoCall EXCEPT !.op = "shift", !.concepts = <<source, target>>,
                                 !.norm_concepts = norm_concepts,
                                 !.norm_result = norm_result,
                                 !.ret = shift(c, source, target, norm_concepts, norm_result)]
    /\ UNCHANGED <<c, eq_elementwise>>
    /\ UnchangedMatch

CallSpan ==
    /\ call.op = "none"
    /\ \E start \in KeysOf(c), end \in KeysOf(c), steps \in 1..MaxSteps,
          norm_concepts \in BOOLEAN, norm_shift_result \in BOOLEAN,
          norm_result \in BOOLEAN, norm_mix_concepts \in BOOLEAN :
          call' = [NoCall EXCEPT !.op = "span", !.concepts = <<Str(start), Str(end)>>,
                                 !.count = steps, !.norm_concepts = norm_concepts,
                                 !.norm_shift_result = norm_shift_result,
                                 !.norm_result = norm_result,
                                 !.norm_mix_concepts = norm_mix_concepts,
                                 !.ret = span(c, start, end, steps, norm_concepts,
                                              norm_shift_result, norm_result,
                                              norm_mix_concepts)]
    /\ UNCHANGED <<c, eq_elementwise>>
    /\ UnchangedMatch

\* The caller is done with the result of the call.
Return ==
    /\ call.op # "none"
    /\ status \in {"idle", "done", "raised"}
    /\ call' = NoCall
    /\ model' = <<>>
    /\ skeleton' = <<>>
    /\ target_domain' = <<>>
    /\ i' = 0
    /\ locals' = NoLocals
    /\ printed' = <<>>
    /\ status' = "idle"
    /\ UNCHANGED <<c, eq_elementwise>>

(***************************************************************************)
(* Semantica.match                                                         *)
(***************************************************************************)
\* self.c.most_similar(key, topn=topn) with the scores dropped: a key given as the
\* query is left out of the answer.
most_similar_to_key(self, key, topn) ==
    LET q == unitvec(get_vector(self, key))
        dists == List([k \in 1..Len(self) |-> DotRaw(unitvec(self[k].vec), q)])
        best == ArgsortDesc(dists, {k \in 1..Len(self) : self[k].key # key}, topn)
    IN  List([n \in 1..Len(best) |-> self[best[n]].key])

\* match, line 142: one shift per concept after the root.
Skeleton(self, mdl) ==
    List([j \in 1..(Len(mdl) - 1) |-> shift(self, mdl[1], mdl[j + 1], TRUE, TRUE).vec])

\* match, lines 145-149
TargetDomain(self, target) ==
    IF target.type = "str"
    THEN LET near == most_similar_to_key(self, target.key, 10000)
         IN  List([n \in 1..Len(near) |-> to_vector(self, Str(near[n]), TRUE).vec])
    ELSE List([n \in 1..Len(self) |-> self[n].vec])

\* Python's "e in lst" for a str e: the elements are compared with e in order.
\* A str element decides by equality.  For an ndarray element, str == ndarray is
\* the scalar False in a numpy that returns a scalar there, and an array whose
\* truth value raises ValueError in a numpy that compares element by element.
RECURSIVE ListContains(_, _, _, _)
ListContains(lst, n, e, elementwise) ==
    IF n > Len(lst) THEN "False"
    ELSE IF lst[n].type = "str"
    THEN (IF lst[n].key = e THEN "True" ELSE ListContains(lst, n + 1, e, elementwise))
    ELSE IF elementwise THEN "ValueError"
    ELSE ListContains(lst, n + 1, e, elementwise)

RECURSIVE KeepWhere(_, _, _, _)
KeepWhere(seq, tests, wanted, n) ==
    IF n > Len(seq) THEN <<>>
    ELSE (IF tests[n] = wanted THEN <<seq[n]>> ELSE <<>>) \o KeepWhere(seq, tests, wanted, n + 1)

RECURSIVE SumSeq(_, _)
SumSeq(seq, n) == IF n = 0 THEN 0 ELSE SumSeq(seq, n - 1) + seq[n]

\* Line 173 with the sum of the scores in the place of their mean.
SumAbove(sum, count) ==
    count > 0 /\ 4 * sum > Scale * Scale

\* match, line 170 with line 173: mean(match_score) > 0.25, for the sum of the
\* scores (in units of Scale^2) and their number.  The mean of no score is nan,
\* and nan > 0.25 is False.
ThresholdNum == 1
ThresholdDen == 4
ScoreAbove(sum, count) ==
    count > 0 /\ ThresholdDen * sum > ThresholdNum * count * Scale * Scale

\* match, lines 157-158: one mixed vector per edge of the skeleton.
NewLeafVectors(self, new_root_vector, skel) ==
    List([j \in 1..Len(skel) |->
             mix(self, <<NdArray(new_root_vector), NdArray(skel[j])>>,
                 TRUE, TRUE, TRUE, TRUE).vec])

\* match, line 161: similar_by_vector(new_root_vector)[0][0]
NewRootConcept(self, new_root_vector) == most_similar(self, new_root_vector, 10)[1]

\* match, line 162: similar_by_vector(f) for every new leaf vector f.
SimilarByVector(self, new_leaf_vectors) ==
    List([j \in 1..Len(new_leaf_vectors) |-> most_similar(self, new_leaf_vectors[j], 10)])

\* match, line 163: e[0] not in [*model, new_root_concept], for every key found.
NotInTests(near, excluded, elementwise) ==
    List([j \in 1..Len(near) |->
             List([n \in 1..Len(near[j]) |->
                      ListContains(excluded, 1, near[j][n], elementwise)])])

\* match, lines 162-163: the keys the test keeps, per edge.
NewLeafConcepts(near, tests) ==
    List([j \in 1..Len(near) |-> KeepWhere(near[j], tests[j], "False", 1)])

\* match, lines 166-168, for edge j: the alignment of every new leaf with the edge.
EdgeScores(self, new_root_concept, leaves, edge) ==
    List([k \in 1..Len(leaves) |->
             DotRaw(shift(self, Str(new_root_concept), Str(leaves[k]), TRUE, TRUE).vec, edge)])

\* match, lines 166-168: match_score, kept per edge.
MatchScore(self, skel, new_root_concept, new_leaf_concepts) ==
    List([j \in 1..Len(skel) |->
             EdgeScores(self, new_root_concept, new_leaf_concepts[j], skel[j])])

SumScores(scores) ==
    SumSeq(List([j \in 1..Len(scores) |-> SumSeq(scores[j], Len(scores[j]))]), Len(scores))

CountScores(scores) ==
    SumSeq(List([j \in 1..Len(scores) |-> Len(scores[j])]), Len(scores))

\* match, lines 152-170: what the evaluation of one candidate leaves behind.
CandidateResult(tests, new_root_concept, new_leaf_concepts, scores) ==
    IF \E j \in 1..Len(tests) : \E n \in 1..Len(tests[j]) : tests[j][n] = "ValueError"
    THEN [raised |-> "ValueError", new_root_concept |-> new_root_concept,
          new_leaf_concepts |-> <<>>, sum |-> 0, count |-> 0]
    ELSE [raised |-> "", new_root_concept |-> new_root_concept,
          new_leaf_concepts |-> new_leaf_concepts,
          sum |-> SumScores(scores), count |-> CountScores(scores)]

CandidateScored(self, skel, tests, new_root_concept, new_leaf_concepts) ==
    CandidateResult(tests, new_root_concept, new_leaf_concepts,
                    MatchScore(self, skel, new_root_concept, new_leaf_concepts))

CandidateTested(self, skel, near, tests, new_root_concept) ==
    CandidateScored(self, skel, tests, new_root_concept, NewLeafConcepts(near, tests))

CandidateNear(self, mdl, skel, near, new_root_concept, elementwise) ==
    CandidateTested(self, skel, near,
                    NotInTests(near, mdl \o <<Str(new_root_concept)>>, elementwise),
                    new_root_concept)

\* match, lines 152-170: the evaluation of one candidate vector.
Candidate(self, mdl, skel, new_root_vector, elementwise) ==
    CandidateNear(self, mdl, skel,
                  SimilarByVector(self, NewLeafVectors(self, new_root_vector, skel)),
                  NewRootConcept(self, new_root_vector), elementwise)

\* match, line 175: what print() writes for a candidate.
PrintedLine(index, cand) ==
    [i |-> index, new_root_concept |-> cand.new_root_concept,
     new_leaf_concepts |-> cand.new_leaf_concepts,
     match_score |-> DivRound(cand.sum, cand.count * Scale)]

\* "ro", "al", "ba" .. "bh", "zo"
kal == <<97, 108>>
kba == <<98, 97>>
kbb == <<98, 98>>
kbc == <<98, 99>>
kbd == <<98, 100>>
kbf == <<98, 102>>
kbg == <<98, 103>>
kbh == <<98, 104>>
kzo == <<122, 111>>

\* The word list the vocabularies of match are cut from.
MatchWords ==
    << Word(kro, 5, 0), Word(kal, 3, -4), Word(kba, 4, 3), Word(kbb, 3, 4),
       Word(kbc, 0, 5), Word(kbd, 7, 24), Word(kbe, 24, 7), Word(kbf, 8, 6),
       Word(kbg, 6, 8), Word(kbh, 0, 2), Word(kzo, -4, -3) >>

MaxModel == 10

MatchVocabularies ==
    {SubSeq(MatchWords, a, Len(MatchWords)) : a \in 1..(Len(MatchWords) - 1)}

NoTarget == [type |-> "NoneType", key |-> <<>>, vec |-> Zero]

\* The models a caller passes: the first keys of the vocabulary, the same with the
\* root given as its vector, and no concept at all.
Models ==
    LET runs == {SubSeq(c, 1, b) : b \in 1..Len(c)}
        keyed == {List([n \in 1..Len(r) |-> Str(r[n].key)]) :
                     r \in {q \in runs : Len(q) >= 1 /\ Len(q) <= MaxModel}}
    IN  {<<>>} \cup keyed \cup {[m EXCEPT ![1] = NdArray(get_vector(c, m[1].key))] : m \in keyed}

Targets == {NoTarget, Str(c[Len(c)].key)}

MatchInit ==
    /\ c \in MatchVocabularies
    /\ eq_elementwise \in BOOLEAN
    /\ call = NoCall
    /\ MatchIdle

\* match, lines 141-149: model[0] of no concept raises IndexError; otherwise the
\* skeleton and the target domain are set up and the loop starts at 0.
StartMatch ==
    /\ call.op = "none"
    /\ status = "idle"
    /\ \E mdl \in Models, target \in Targets :
          /\ model' = mdl
          /\ IF Len(mdl) = 0
             THEN /\ call' = [NoCall EXCEPT !.op = "match", !.concepts = <<target>>,
                                            !.ret = Raise("IndexError")]
                  /\ status' = "raised"
                  /\ UNCHANGED <<skeleton, target_domain>>
             ELSE /\ call' = [NoCall EXCEPT !.op = "match", !.concepts = <<target>>]
                  /\ status' = "for"
                  /\ skeleton' = Skeleton(c, mdl)
                  /\ target_domain' = TargetDomain(c, target)
    /\ UNCHANGED <<c, eq_elementwise, i, printed, locals>>

\* Lines 152-170 for the candidate at i.  An exception in them is caught by
\* nothing: match is left with it.
MatchEvaluate ==
    /\ status = "for"
    /\ i < Len(target_domain)
    /\ \E cand \in {Candidate(c, model, skeleton, target_domain[i + 1], eq_elementwise)} :
          IF cand.raised # ""
          THEN /\ status' = "raised"
               /\ call' = [call EXCEPT !.ret = Raise(cand.raised)]
               /\ UNCHANGED locals
          ELSE /\ status' = "if"
               /\ locals' = cand
               /\ UNCHANGED call
    /\ UNCHANGED <<c, eq_elementwise, model, skeleton, target_domain, i, printed>>

\* Lines 173-175 with a score above 0.25: the match is printed.
MatchPrint ==
    /\ status = "if"
    /\ ScoreAbove(locals.sum, locals.count)
    /\ printed' = Append(printed, PrintedLine(i, locals))
    /\ i' = i + 1
    /\ status' = "for"
    /\ locals' = NoLocals
    /\ UNCHANGED <<c, eq_elementwise, call, model, skeleton, target_domain>>

\* Line 173 with any other score: nothing is printed.
MatchNoPrint ==
    /\ status = "if"
    /\ ~ScoreAbove(locals.sum, locals.count)
    /\ i' = i + 1
    /\ status' = "for"
    /\ locals' = NoLocals
    /\ UNCHANGED <<c, eq_elementwise, call, model, skeleton, target_domain, printed>>

\* range(len(target_domain)) is exhausted: match returns None.
MatchFinish ==
    /\ status = "for"
    /\ i = Len(target_domain)
    /\ status' = "done"
    /\ UNCHANGED <<c, eq_elementwise, call, model, skeleton, target_domain, i, printed,
                   locals>>

MatchNext ==
    \/ StartMatch
    \/ MatchEvaluate
    \/ MatchPrint
    \/ MatchNoPrint
    \/ MatchFinish
    \/ Return

MatchSpec == MatchInit /\ [][MatchNext]_vars

Next ==
    \/ CallUnique
    \/ CallLowerUnique
    \/ CallToVector
    \/ CallField
    \/ CallMix
    \/ CallShift
    \/ CallSpan
    \/ Return

Spec == Init /\ [][Next]_vars

(***************************************************************************)
(* The properties of the calls, stated of the call recorded in call.       *)
(***************************************************************************)
FieldOfKey ==
    /\ call.op = "field"
    /\ call.concepts[1].type = "str"
    /\ call.ret.raised = ""

NoDuplicates(keys) == \A a, b \in 1..Len(keys) : keys[a] = keys[b] => a = b

\* C1: field(c, max_concept_count=m) returns at most m keys, and for a key c no
\* element of the result equals c when case is ignored.
C1_FieldBoundedWithoutQuery ==
    (call.op = "field" /\ call.ret.raised = "") =>
        /\ Len(call.ret.keys) <= call.count
        /\ call.concepts[1].type = "str" =>
              \A n \in 1..Len(call.ret.keys) :
                  lower(call.ret.keys[n]) # lower(call.concepts[1].key)

\* The case of C2: a key k of a vocabulary with pairwise distinct lowercase forms
\* that holds at least m >= 1 other keys, queried with lower=True.
C2_Case ==
    /\ FieldOfKey
    /\ call.lower
    /\ call.count >= 1
    /\ Len(c) >= call.count + 1
    /\ \A a, b \in 1..Len(c) : lower(c[a].key) = lower(c[b].key) => a = b

C3_SpanIsPath ==
    (call.op = "span" /\ call.ret.raised = "") =>
        /\ Len(call.ret.keys) >= 2
        /\ call.ret.keys[1] = lower(call.concepts[1].key)
        /\ call.ret.keys[Len(call.ret.keys)] = lower(call.concepts[2].key)
        /\ NoDuplicates(call.ret.keys)

\* The case of C4: mix of one key, return_vector=False, norm_concepts = norm_result.
C4_Case ==
    /\ call.op = "mix"
    /\ Len(call.concepts) = 1
    /\ call.concepts[1].type = "str"
    /\ call.norm_concepts = call.norm_result
    /\ ~call.return_vector

\* C4: mix(k) of a single key returns the keys field(k) returns under the same
\* normalisation and lower flags and the default max_concept_count.
C4_MixOfOneIsField ==
    C4_Case =>
        call.ret = field(c, call.concepts[1], call.norm_concepts, call.lower, 10)

\* mix of one key of a vocabulary of several keys has returned keys.
C4_Witness ==
    /\ C4_Case
    /\ call.lower
    /\ Len(c) >= 2
    /\ call.ret.raised = ""
    /\ Len(call.ret.keys) >= 1

\* C6: mix called with no concept raises; it never returns a value.
C6_MixOfNothingRaises ==
    (call.op = "mix" /\ Len(call.concepts) = 0) => call.ret.raised # ""

\* C7: a call leaves the list it was passed as the list was.
C7_ArgumentsUnchanged ==
    call.op # "none" => call.keys_after = call.keys

\* The case of C9: shift of a concept to itself, norm_result=False.
C9_Case ==
    /\ call.op = "shift"
    /\ call.concepts[1] = call.concepts[2]
    /\ ~call.norm_result
    /\ call.ret.raised = ""

\* C9: shift(a, a) with norm_result=False is the zero vector, with and without
\* norm_concepts.
C9_ShiftToSelfIsZero ==
    C9_Case => (call.ret.type = "ndarray" /\ call.ret.vec = Zero)

\* shift of a key with a non-zero vector to itself has returned.
C9_Witness ==
    /\ C9_Case
    /\ call.concepts[1].type = "str"
    /\ get_vector(c, call.concepts[1].key) # Zero
    /\ call.norm_concepts


(***************************************************************************)
(* The properties of match.                                                *)
(***************************************************************************)
\* C5: no printed match has an edge with an empty list of new leaf concepts.
C5_EmptyLeafListSkipped ==
    \A n \in 1..Len(printed) :
        \A j \in 1..Len(printed[n].new_leaf_concepts) :
            printed[n].new_leaf_concepts[j] # <<>>

\* C8: match is not left by an exception of a candidate's evaluation while
\* candidates after it are still to be evaluated.
C8_CandidateFailureIsolated ==
    ~(/\ status = "raised"
      /\ Len(model) > 0
      /\ i + 1 < Len(target_domain))

\* A candidate's score is defined and strictly greater than 0.25.
C10_Qualifies(cand) ==
    /\ cand.raised = ""
    /\ cand.count > 0
    /\ 4 * cand.sum > cand.count * Scale * Scale

\* The lines due for the first n candidates of the target domain, in index order.
RECURSIVE C10_Emitted(_)
C10_Emitted(n) ==
    IF n = 0 THEN <<>>
    ELSE LET cand == Candidate(c, model, skeleton, target_domain[n], eq_elementwise)
         IN  C10_Emitted(n - 1) \o
                 (IF C10_Qualifies(cand) THEN <<PrintedLine(n - 1, cand)>> ELSE <<>>)

\* C10: match takes the candidates in index order, and what it has printed when it
\* comes to candidate i is exactly the lines of the candidates before i whose
\* score is strictly greater than 0.25, in that order; it returns after the last
\* candidate, and when it is over the lines printed are those of all the
\* candidates of the target domain with such a score.
C10_ScanInOrder ==
    (call.op = "match" /\ Len(model) > 0) =>
        /\ i <= Len(target_domain)
        /\ printed = C10_Emitted(i)
        /\ status = "if" =>
              locals = Candidate(c, model, skeleton, target_domain[i + 1], eq_elementwise)
        /\ status = "done" => i = Len(target_domain)
        /\ status \in {"done", "raised"} => printed = C10_Emitted(Len(target_domain))

\* match has returned after printing some candidates and passing over others, the
\* first candidate among those passed over.
C10_Witness ==
    /\ status = "done"
    /\ Len(printed) >= 2
    /\ Len(printed) < Len(target_domain)
    /\ printed[1].i > 0

====
